---- MODULE Spec2Model ----
(***************************************************************************)
(* Verification model of the SkyFit churn-prediction framework.            *)
(*                                                                         *)
(*   Spec       the StackingEnsemble life cycle (construct, fit, load,     *)
(*              save, predict_proba) over an artifact directory on disk.   *)
(*   RulesSpec  the row-wise decision layer: predict_risk_tier,            *)
(*              classify_churn_type, assign_playbook, and their            *)
(*              composition with _add_derived_features.                    *)
(*   FoldsSpec  generate_walk_forward_folds, one loop iteration per step,  *)
(*              over a dated sample table (FoldsFairSpec: executed to the  *)
(*              end).                                                      *)
(*   LoaderSpec load_training_data over a stored sample table.             *)
(*   ScorerSpec BatchScorer.run, one pipeline step per action, over the    *)
(*              live prediction table and the prediction history.          *)
(*   DriftSpec  the drift monitor: compute_psi, check_feature_drift and    *)
(*              run_full_check as functions of what the queries return.    *)
(***************************************************************************)
EXTENDS Integers, Sequences, FiniteSets, TLC

VARIABLES
    ensemble,     \* the StackingEnsemble object (its six attributes)
    disk,         \* artifact directories: directory -> file -> <<>> or <<content>>
    completed,    \* history: a fit or load has run to completion on this object
    saved,        \* history: directory -> <<>> or <<the ensemble as last saved there>>
    ops,          \* the number of operations made so far
    out,          \* the last operation and how it ended
    call,         \* decision layer: the function called, its argument, its result
    args,         \* generate_walk_forward_folds: the arguments of the call
    pc,           \* generate_walk_forward_folds: "start", "loop", "done" or "idle"
    loop,         \* generate_walk_forward_folds: the locals of the loop
    folds,        \* generate_walk_forward_folds: the folds appended so far
    db,           \* ml.churn_predictions and ml.churn_predictions_history
    run,          \* BatchScorer.run: its position, its data, its open transaction
    obs           \* history: what the scoring runs so far have done

ensVars == <<ensemble, disk, completed, saved, ops, out>>
rulesVars == <<call>>

foldsVars == <<args, pc, loop, folds>>

scorerVars == <<db, run, obs>>

vars == <<ensVars, rulesVars, foldsVars, scorerVars>>

otherThanEns == <<rulesVars, foldsVars, scorerVars>>
otherThanRules == <<ensVars, foldsVars, scorerVars>>
otherThanFolds == <<ensVars, rulesVars, scorerVars>>
otherThanScorer == <<ensVars, rulesVars, foldsVars>>

\* ------------------------------------------------------------------ bounds

\* Training sets are numbered 1..MaxData; a model fitted on set t is written t.
MaxData == 2
\* A run makes at most MaxOps state-changing operations.
MaxOps == 4

\* ------------------------------------------------------------- ensemble

\* Python's None in a model slot.
NoneVal == 0
\* An estimator object that was constructed but whose fit() has not returned.
Unfitted == -1

SpecialistNames == <<"xgb_freq", "xgb_fin", "xgb_tenure", "xgb_context">>
NumSpecialists == Len(SpecialistNames)

\* The files save() writes and load() reads, in load()'s reading order.
Files == <<"xgb_freq.joblib", "xgb_fin.joblib", "xgb_tenure.joblib",
           "xgb_context.joblib", "meta_learner.joblib", "calibrator.joblib",
           "config_snapshot.joblib">>

Dirs == {"model_dir"}
DataSets == 1..MaxData

\* Label counts of training set t (set 1 has no positive row).
NNeg(t) == t + 1
NPos(t) == t - 1
Max(a, b) == IF a >= b THEN a ELSE b
Min(a, b) == IF a <= b THEN a ELSE b

\* scale_pos_weight = n_neg / max(n_pos, 1), kept as the fraction <<num, den>>.
ClassWeight(t) == <<NNeg(t), Max(NPos(t), 1)>>

\* The metrics dictionary _evaluate returns for a fit on set t; {} is <<>>.
Evaluate(t) == <<t>>

\* StackingEnsemble.__init__
NewEnsemble ==
    [ specialists      |-> [i \in 1..NumSpecialists |-> NoneVal],
      meta_learner     |-> NoneVal,
      calibrator       |-> NoneVal,
      is_fitted        |-> FALSE,
      training_metrics |-> <<>>,
      scale_pos_weight |-> <<1, 1>> ]

\* fit() assigns the object's attributes in this order; FitStages is the number
\* of assignments.  Stage 1: scale_pos_weight.  Stages 2..5: specialist models.
\* Stage 6: meta_learner bound to a new estimator; 7: that estimator fitted.
\* Stage 8: calibrator bound to a new wrapper; 9: that wrapper fitted.
\* Stage 10: training_metrics.  Stage 11: is_fitted.
FitStages == 11

\* A statement of fit() can raise after these many assignments (a missing
\* feature column, a one-class validation label in roc_auc_score, a NaN in the
\* meta-learner input, ...).  Nothing can raise between stages 10 and 11.
FitFailPoints == 1..9

\* Variant of FitStage: the fitted flag is raised with the first assignment.
FitStageFlagFirst(s, t, n) ==
    CASE n = 1 -> [s EXCEPT !.scale_pos_weight = ClassWeight(t), !.is_fitted = TRUE]
      [] n \in 2..5 -> [s EXCEPT !.specialists[n - 1] = t]
      [] n = 6 -> [s EXCEPT !.meta_learner = Unfitted]
      [] n = 7 -> [s EXCEPT !.meta_learner = t]
      [] n = 8 -> [s EXCEPT !.calibrator = Unfitted]
      [] n = 9 -> [s EXCEPT !.calibrator = t]
      [] n = 10 -> [s EXCEPT !.training_metrics = Evaluate(t)]
      [] n = 11 -> [s EXCEPT !.is_fitted = TRUE]

FitStage(s, t, n) ==
    CASE n = 1 -> [s EXCEPT !.scale_pos_weight = ClassWeight(t)]
      [] n \in 2..5 -> [s EXCEPT !.specialists[n - 1] = t]
      [] n = 6 -> [s EXCEPT !.meta_learner = Unfitted]
      [] n = 7 -> [s EXCEPT !.meta_learner = t]
      [] n = 8 -> [s EXCEPT !.calibrator = Unfitted]
      [] n = 9 -> [s EXCEPT !.calibrator = t]
      [] n = 10 -> [s EXCEPT !.training_metrics = Evaluate(t)]
      [] n = 11 -> [s EXCEPT !.is_fitted = TRUE]

RECURSIVE FitUpTo(_, _, _)
\* The object after the first n assignments of fit() on training set t.
FitUpTo(s, t, n) == IF n = 0 THEN s ELSE FitStage(FitUpTo(s, t, n - 1), t, n)

\* What joblib.dump writes for each file of a save().
SaveContent(s, i) ==
    IF i <= NumSpecialists THEN s.specialists[i]
    ELSE IF i = 5 THEN s.meta_learner
    ELSE IF i = 6 THEN s.calibrator
    ELSE [ scale_pos_weight |-> s.scale_pos_weight,
           training_metrics |-> s.training_metrics ]

SaveDir(s) == [i \in 1..Len(Files) |-> <<SaveContent(s, i)>>]

\* The number of leading files of the directory that load() reads before the
\* first missing one stops it.
RECURSIVE PresentPrefix(_, _)
PresentPrefix(dir, i) ==
    IF i > Len(Files) \/ dir[i] = <<>> THEN i - 1 ELSE PresentPrefix(dir, i + 1)

\* Variant of LoadFile: the calibrator file is not read back.
LoadFileSkipsCalibrator(s, dir, i) ==
    IF i <= NumSpecialists THEN [s EXCEPT !.specialists[i] = dir[i][1]]
    ELSE IF i = 5 THEN [s EXCEPT !.meta_learner = dir[i][1]]
    ELSE IF i = 6 THEN s
    ELSE [s EXCEPT !.scale_pos_weight = dir[i][1].scale_pos_weight,
                   !.training_metrics = dir[i][1].training_metrics,
                   !.is_fitted = TRUE]

LoadFile(s, dir, i) ==
    IF i <= NumSpecialists THEN [s EXCEPT !.specialists[i] = dir[i][1]]
    ELSE IF i = 5 THEN [s EXCEPT !.meta_learner = dir[i][1]]
    ELSE IF i = 6 THEN [s EXCEPT !.calibrator = dir[i][1]]
    ELSE [s EXCEPT !.scale_pos_weight = dir[i][1].scale_pos_weight,
                   !.training_metrics = dir[i][1].training_metrics,
                   !.is_fitted = TRUE]

RECURSIVE LoadUpTo(_, _, _)
LoadUpTo(s, dir, n) == IF n = 0 THEN s ELSE LoadFile(LoadUpTo(s, dir, n - 1), dir, n)

\* An input batch: whether it carries every feature column.
Batches == [complete : BOOLEAN]

Raised(e) == [err |-> e, val |-> <<>>]
Returned(v) == [err |-> "none", val |-> v]

\* ModelConfig thresholds, the two probabilities in hundredths.
HIGH_RISK_THRESHOLD == 70
MEDIUM_RISK_THRESHOLD == 40
BEHAVIORAL_CHURN_DAYS == 10
CONTRACT_RENEWAL_CYCLE_DAYS == 30

\* A missing value of a float column.  Every comparison with NaN is false.
NaN == -1
\* A column the table does not have at all.
Absent == -2

FloatGe(a, b) == a # NaN /\ a >= b
\* Variant of FloatGt: the comparison is not strict.
FloatGtOrEqual(a, b) == a # NaN /\ a >= b
FloatGt(a, b) == a # NaN /\ a > b
FloatEq(a, b) == a # NaN /\ a = b

\* Variant of RiskTierOf: the thresholds are compared strictly.
RiskTierOfStrict(p) ==
    IF FloatGt(p, HIGH_RISK_THRESHOLD) THEN "HIGH"
    ELSE IF FloatGt(p, MEDIUM_RISK_THRESHOLD) THEN "MEDIUM"
    ELSE "LOW"

\* np.where(p >= HIGH, "HIGH", np.where(p >= MEDIUM, "MEDIUM", "LOW")) for one element.
RiskTierOf(p) ==
    IF FloatGe(p, HIGH_RISK_THRESHOLD) THEN "HIGH"
    ELSE IF FloatGe(p, MEDIUM_RISK_THRESHOLD) THEN "MEDIUM"
    ELSE "LOW"

\* StackingEnsemble.predict_risk_tier, elementwise over the array.
predict_risk_tier(probabilities) ==
    [i \in DOMAIN probabilities |-> RiskTierOf(probabilities[i])]

\* predict_proba: the probabilities are a function of the four specialist
\* models, the calibrator and the batch, and of nothing else.
PredictProbaResult(s, x) ==
    IF ~s.is_fitted THEN Raised("RuntimeError")
    ELSE IF ~x.complete THEN Raised("KeyError")
    ELSE IF \E i \in 1..NumSpecialists : s.specialists[i] = NoneVal
        THEN Raised("AttributeError")
    ELSE IF s.calibrator = NoneVal THEN Raised("AttributeError")
    ELSE Returned(<<s.specialists, s.calibrator, x>>)

Idle == [op |-> "none", d |-> "", fresh |-> FALSE, res |-> Returned(<<>>)]

EnsInit ==
    /\ ensemble = NewEnsemble
    /\ disk = [d \in Dirs |-> [i \in 1..Len(Files) |-> <<>>]]
    /\ completed = FALSE
    /\ saved = [d \in Dirs |-> <<>>]
    /\ ops = 0
    /\ out = Idle

\* ensemble = StackingEnsemble()
Construct ==
    /\ ensemble' = NewEnsemble
    /\ completed' = FALSE
    /\ ops < MaxOps
    /\ ops' = ops + 1
    /\ out' = [Idle EXCEPT !.op = "construct"]
    /\ UNCHANGED <<disk, saved, otherThanEns>>

\* ensemble.fit(...) on training set t running to completion.
Fit(t) ==
    /\ ops < MaxOps
    /\ ops' = ops + 1
    /\ ensemble' = FitUpTo(ensemble, t, FitStages)
    /\ completed' = TRUE
    /\ out' = [Idle EXCEPT !.op = "fit", !.res = Returned(Evaluate(t))]
    /\ UNCHANGED <<disk, saved, otherThanEns>>

\* ensemble.fit(...) on training set t raising after n assignments.
FitRaises(t, n) ==
    /\ ops < MaxOps
    /\ ops' = ops + 1
    /\ ensemble' = FitUpTo(ensemble, t, n)
    /\ out' = [Idle EXCEPT !.op = "fit", !.res = Raised("ValueError")]
    /\ UNCHANGED <<disk, completed, saved, otherThanEns>>

\* ensemble.save(d)
Save(d) ==
    /\ ops < MaxOps
    /\ ops' = ops + 1
    /\ disk' = [disk EXCEPT ![d] = SaveDir(ensemble)]
    /\ saved' = [saved EXCEPT ![d] = <<ensemble>>]
    /\ out' = [Idle EXCEPT !.op = "save", !.d = d]
    /\ UNCHANGED <<ensemble, completed, otherThanEns>>

\* ensemble.load(d): reads the files in order and stops at the first missing one.
Load(d) ==
    LET n == PresentPrefix(disk[d], 1)
        ok == n = Len(Files)
    IN /\ ops < MaxOps
       /\ ops' = ops + 1
       /\ ensemble' = LoadUpTo(ensemble, disk[d], n)
       /\ completed' = (completed \/ ok)
       /\ out' = [ op |-> "load", d |-> d, fresh |-> ensemble = NewEnsemble,
                   res |-> IF ok THEN Returned(<<>>) ELSE Raised("FileNotFoundError") ]
       /\ UNCHANGED <<disk, saved, otherThanEns>>

\* ensemble.predict_proba(x)
PredictProba(x) ==
    /\ out' = [Idle EXCEPT !.op = "predict_proba", !.res = PredictProbaResult(ensemble, x)]
    /\ UNCHANGED <<ensemble, disk, completed, saved, ops, otherThanEns>>

\* The probability arrays given to predict_risk_tier on the ensemble object.
TierBatches == {<<0, MEDIUM_RISK_THRESHOLD, HIGH_RISK_THRESHOLD>>}

\* ensemble.predict_risk_tier(p): the method reads no attribute of the object.
PredictRiskTierOnEnsemble(p) ==
    /\ out' = [Idle EXCEPT !.op = "predict_risk_tier",
                           !.res = Returned(predict_risk_tier(p))]
    /\ UNCHANGED <<ensemble, disk, completed, saved, ops, otherThanEns>>

\* The environment: one artifact of a complete directory goes missing.
RemoveArtifact(d, i) ==
    /\ ops < MaxOps
    /\ ops' = ops + 1
    /\ \A j \in 1..Len(Files) : disk[d][j] # <<>>
    /\ disk' = [disk EXCEPT ![d][i] = <<>>]
    /\ out' = Idle
    /\ UNCHANGED <<ensemble, completed, saved, otherThanEns>>

Next ==
    \/ Construct
    \/ \E t \in DataSets : Fit(t)
    \/ \E t \in DataSets, n \in FitFailPoints : FitRaises(t, n)
    \/ \E d \in Dirs : Save(d)
    \/ \E d \in Dirs : Load(d)
    \/ \E x \in Batches : PredictProba(x)
    \/ \E p \in TierBatches : PredictRiskTierOnEnsemble(p)
    \/ \E d \in Dirs, i \in 1..Len(Files) : RemoveArtifact(d, i)

\* A call of the decision layer that has not been made.
NoCall == [fn |-> "none", arg |-> <<>>, done |-> TRUE, ret |-> <<>>]

\* No call of generate_walk_forward_folds is under way.
FoldsIdle ==
    /\ args = <<>>
    /\ pc = "idle"
    /\ loop = <<>>
    /\ folds = <<>>

\* No scoring run has been made and both prediction tables are empty.
ScorerIdle ==
    /\ db = [predictions |-> {}, history |-> {}]
    /\ run = [ pc |-> "idle", id |-> 0, date |-> 0, n |-> 0, feats |-> <<>>,
               tx |-> {}, predicted |-> FALSE, res |-> "none",
               at |-> "none", partial |-> 0 ]
    /\ obs = [before |-> {}, latest |-> <<>>, allok |-> TRUE]

Init == EnsInit /\ call = NoCall /\ FoldsIdle /\ ScorerIdle

Spec == Init /\ [][Next]_vars

\* ------------------------------------------------------- decision layer

\* Probabilities are counted in hundredths: 0..PctMax.
PctMax == 100
\* Day counts given as inputs range over 0..MaxDays.
MaxDays == 45

\* df.get(column, pd.Series(0.0)): the column, or 0.0 when the table lacks it.
DfGet(v) == IF v = Absent THEN 0 ELSE v

\* Variant of classify_churn_type: the single signals are tested before the
\* joint one.
classify_churn_type_single_first(row) ==
    LET is_defaulter == FloatEq(DfGet(row.is_defaulter), 1)
        is_behavioral ==
            /\ \/ FloatGe(row.days_since_last_checkin, BEHAVIORAL_CHURN_DAYS)
               \/ FloatEq(row.has_ever_checked_in, 0)
            /\ ~is_defaulter
        is_financial ==
            /\ FloatEq(DfGet(row.has_open_receivable), 1)
            /\ ~is_defaulter
        at_risk == row.risk_tier \in {"HIGH", "MEDIUM"}
    IN IF at_risk /\ is_defaulter THEN "DEFAULT"
       ELSE IF at_risk /\ is_behavioral THEN "BEHAVIORAL"
       ELSE IF at_risk /\ is_financial THEN "FINANCIAL"
       ELSE IF at_risk /\ is_behavioral /\ is_financial THEN "FULL"
       ELSE "NONE"

\* classify_churn_type for one row of the frame.
classify_churn_type(row) ==
    LET is_defaulter == FloatEq(DfGet(row.is_defaulter), 1)
        is_behavioral ==
            /\ \/ FloatGe(row.days_since_last_checkin, BEHAVIORAL_CHURN_DAYS)
               \/ FloatEq(row.has_ever_checked_in, 0)
            /\ ~is_defaulter
        is_financial ==
            /\ FloatEq(DfGet(row.has_open_receivable), 1)
            /\ ~is_defaulter
        at_risk == row.risk_tier \in {"HIGH", "MEDIUM"}
    IN IF at_risk /\ is_defaulter THEN "DEFAULT"
       ELSE IF at_risk /\ is_behavioral /\ is_financial THEN "FULL"
       ELSE IF at_risk /\ is_behavioral THEN "BEHAVIORAL"
       ELSE IF at_risk /\ is_financial THEN "FINANCIAL"
       ELSE "NONE"

\* Variant of PLAYBOOK_MAPPING: the table without the DEFAULT churn type.
PLAYBOOK_MAPPING_without_default ==
    ( <<"HIGH", "_", "BEHAVIORAL">>   :> "PB_HIGH_BEHAVIORAL"   @@
      <<"HIGH", "_", "FINANCIAL">>    :> "PB_HIGH_FINANCIAL"    @@
      <<"HIGH", "_", "FULL">>         :> "PB_HIGH_FULL"         @@
      <<"MEDIUM", "_", "BEHAVIORAL">> :> "PB_MEDIUM_BEHAVIORAL" @@
      <<"MEDIUM", "_", "FINANCIAL">>  :> "PB_MEDIUM_FINANCIAL"  @@
      <<"LOW", "_", "NONE">>          :> "PB_LOW_ACTIVE" )

\* ModelConfig.PLAYBOOK_MAPPING; the key f"{tier}_{ctype}" is <<tier, "_", ctype>>.
PLAYBOOK_MAPPING ==
    ( <<"HIGH", "_", "BEHAVIORAL">>   :> "PB_HIGH_BEHAVIORAL"   @@
      <<"HIGH", "_", "FINANCIAL">>    :> "PB_HIGH_FINANCIAL"    @@
      <<"HIGH", "_", "DEFAULT">>      :> "PB_HIGH_FINANCIAL"    @@
      <<"HIGH", "_", "FULL">>         :> "PB_HIGH_FULL"         @@
      <<"MEDIUM", "_", "BEHAVIORAL">> :> "PB_MEDIUM_BEHAVIORAL" @@
      <<"MEDIUM", "_", "FINANCIAL">>  :> "PB_MEDIUM_FINANCIAL"  @@
      <<"MEDIUM", "_", "DEFAULT">>    :> "PB_MEDIUM_FINANCIAL"  @@
      <<"LOW", "_", "NONE">>          :> "PB_LOW_ACTIVE" )

\* Variant of DictGet: mapping[key], which raises on a key the table lacks.
DictGetItem(mapping, key, default) ==
    IF key \in DOMAIN mapping THEN mapping[key] ELSE "KeyError"

\* dict.get(key, default)
DictGet(mapping, key, default) ==
    IF key \in DOMAIN mapping THEN mapping[key] ELSE default

\* assign_playbook for one (tier, churn type) pair.
assign_playbook(tier, ctype) ==
    DictGet(PLAYBOOK_MAPPING, <<tier, "_", ctype>>, "PB_LOW_ACTIVE")

\* _add_derived_features for one row; has_cols says whether the table has both
\* the has_open_receivable and the days_since_last_payment column.
add_derived_features(raw) ==
    [ days_since_last_checkin |-> raw.days_since_last_checkin,
      has_open_receivable     |-> raw.has_open_receivable,
      days_since_last_payment |-> raw.days_since_last_payment,
      has_ever_checked_in     |-> IF raw.days_since_last_checkin = NaN THEN 0 ELSE 1,
      is_defaulter            |->
          IF raw.has_open_receivable # Absent /\ raw.days_since_last_payment # Absent
          THEN IF /\ FloatEq(raw.has_open_receivable, 1)
                  /\ FloatGt(raw.days_since_last_payment, CONTRACT_RENEWAL_CYCLE_DAYS)
               THEN 1 ELSE 0
          ELSE 0 ]

\* _prepare_features: a feature column the table lacks is filled with NaN.
FillNaN(v) == IF v = Absent THEN NaN ELSE v

\* BatchScorer.run steps 4 to 6 for one member: derive, tier, type, playbook.
ScoreMember(raw, p) ==
    LET df == add_derived_features(raw)
        tier == RiskTierOf(p)
        scored == [ risk_tier               |-> tier,
                    days_since_last_checkin |-> FillNaN(df.days_since_last_checkin),
                    has_ever_checked_in     |-> df.has_ever_checked_in,
                    is_defaulter            |-> df.is_defaulter,
                    has_open_receivable     |-> FillNaN(df.has_open_receivable) ]
        ctype == classify_churn_type(scored)
    IN [ is_defaulter |-> df.is_defaulter,
         has_ever_checked_in |-> df.has_ever_checked_in,
         risk_tier |-> tier,
         churn_type |-> ctype,
         playbook_id |-> assign_playbook(tier, ctype) ]

Probabilities == 0..PctMax
Days == 0..MaxDays
Flags == {0, 1, NaN}
Tiers == {"HIGH", "MEDIUM", "LOW", "OTHER"}
ChurnTypes == {"DEFAULT", "FULL", "BEHAVIORAL", "FINANCIAL", "NONE", "OTHER"}
\* The probabilities at and next to the tier boundaries.
BoundaryProbs == {0, MEDIUM_RISK_THRESHOLD - 1, MEDIUM_RISK_THRESHOLD,
                  HIGH_RISK_THRESHOLD - 1, HIGH_RISK_THRESHOLD, PctMax}

TierArgs == [1..2 -> Probabilities]
ClassifyArgs ==
    [ risk_tier : Tiers,
      is_defaulter : Flags \cup {Absent},
      days_since_last_checkin : Days \cup {NaN},
      has_ever_checked_in : Flags,
      has_open_receivable : Flags \cup {Absent} ]
PlaybookArgs == Tiers \X ChurnTypes
RawRows ==
    [ days_since_last_checkin : Days \cup {NaN},
      has_open_receivable : Flags \cup {Absent},
      days_since_last_payment : Days \cup {NaN, Absent} ]
ScoreArgs == RawRows \X BoundaryProbs

Pending(fn, arg) == [fn |-> fn, arg |-> arg, done |-> FALSE, ret |-> <<>>]

RulesInit ==
    /\ EnsInit
    /\ FoldsIdle
    /\ ScorerIdle
    /\ call \in {Pending("predict_risk_tier", a) : a \in TierArgs}
           \cup {Pending("classify_churn_type", a) : a \in ClassifyArgs}
           \cup {Pending("assign_playbook", a) : a \in PlaybookArgs}
           \cup {Pending("score", a) : a \in ScoreArgs}

PredictRiskTier ==
    /\ call.fn = "predict_risk_tier" /\ ~call.done
    /\ call' = [call EXCEPT !.done = TRUE, !.ret = <<predict_risk_tier(call.arg)>>]
    /\ UNCHANGED otherThanRules

ClassifyChurnType ==
    /\ call.fn = "classify_churn_type" /\ ~call.done
    /\ call' = [call EXCEPT !.done = TRUE, !.ret = <<classify_churn_type(call.arg)>>]
    /\ UNCHANGED otherThanRules

AssignPlaybook ==
    /\ call.fn = "assign_playbook" /\ ~call.done
    /\ call' = [call EXCEPT !.done = TRUE,
                            !.ret = <<assign_playbook(call.arg[1], call.arg[2])>>]
    /\ UNCHANGED otherThanRules

Score ==
    /\ call.fn = "score" /\ ~call.done
    /\ call' = [call EXCEPT !.done = TRUE,
                            !.ret = <<ScoreMember(call.arg[1], call.arg[2])>>]
    /\ UNCHANGED otherThanRules

RulesNext == PredictRiskTier \/ ClassifyChurnType \/ AssignPlaybook \/ Score

RulesSpec == RulesInit /\ [][RulesNext]_vars

\* ------------------------------------------------- walk-forward splitter

\* window_months given to the call ranges over -1..MaxWindow (0 stands for
\* both None and 0: "window_months or default" treats them alike).
MaxWindow == 3
\* The loop is followed for at most MaxIter iterations.
MaxIter == 12

\* A date is the number (12 * year + month - 1) * 32 + day, so that dates
\* compare as numbers; a date string "YYYY-MM-DD" is <<year, month, day>>.
Date(y, m, d) == (12 * y + (m - 1)) * 32 + d
MonthIndex(dt) == dt \div 32
DayOf(dt) == dt % 32

\* pd.Timestamp("YYYY-MM-DD")
Timestamp(str) == Date(str[1], str[2], str[3])
\* str(timestamp.date())
DateStr(dt) == <<MonthIndex(dt) \div 12, (MonthIndex(dt) % 12) + 1, DayOf(dt)>>

IsLeap(y) == y % 4 = 0 /\ (y % 100 # 0 \/ y % 400 = 0)
DaysInMonth(mi) ==
    LET m == (mi % 12) + 1
        y == mi \div 12
    IN IF m = 2 THEN (IF IsLeap(y) THEN 29 ELSE 28)
       ELSE IF m \in {4, 6, 9, 11} THEN 30
       ELSE 31

\* timestamp + pd.DateOffset(months=n): the month moves by n and the day is
\* cut to the length of the month it lands in.
AddMonths(dt, n) ==
    LET mi == MonthIndex(dt) + n
    IN mi * 32 + Min(DayOf(dt), DaysInMonth(mi))

\* ModelConfig dates.
TRAIN_START_DATE == <<2024, 3, 1>>
TEST_START_DATE == <<2025, 7, 1>>
TEST_END_DATE == <<2026, 1, 1>>
VALIDATION_WINDOW_MONTHS == 1

\* Python's None for a date-string argument.
NoDate == <<>>

\* "x or default" for a date string and for an integer.
OrDate(x, default) == IF x = NoDate THEN default ELSE x
OrInt(x, default) == IF x = 0 THEN default ELSE x

\* The rows of df whose reference_date lies in [lo, hi); a table is the set of
\* its rows' reference dates.
RowsIn(df, lo, hi) == {r \in df : r >= lo /\ r < hi}

\* Lines 87-107: defaults, and the locals as they stand before the loop.
FoldsLocals(a) ==
    LET train_start == OrDate(a.train_start, TRAIN_START_DATE)
        window_months == OrInt(a.window_months, VALIDATION_WINDOW_MONTHS)
        val_start_month ==
            IF a.val_start_month = NoDate
            THEN DateStr(AddMonths(Timestamp(train_start), 6))
            ELSE a.val_start_month
        val_end_month ==
            IF a.val_end_month = NoDate
            THEN DateStr(AddMonths(Timestamp(TEST_START_DATE), -1))
            ELSE a.val_end_month
    IN [ train_start_dt |-> Timestamp(train_start),
         window_months  |-> window_months,
         current_val    |-> Timestamp(val_start_month),
         last_val       |-> Timestamp(val_end_month),
         fold_num       |-> 1 ]

\* The validation window of the iteration that starts at current_val.
ValEnd(l) == AddMonths(l.current_val, l.window_months)
\* Variant of TrainRows: the train window includes the validation start.
TrainRowsInclusive(df, l) == {r \in df : r >= l.train_start_dt /\ r <= l.current_val}
TrainRows(df, l) == RowsIn(df, l.train_start_dt, l.current_val)
ValRows(df, l) == RowsIn(df, l.current_val, ValEnd(l))

\* Variant of AppendFold: the fold is appended whatever its sizes.
AppendFoldAlways(fs, df, l) ==
    Append(fs, [ train       |-> TrainRows(df, l),
                 val         |-> ValRows(df, l),
                 train_start |-> l.train_start_dt,
                 val_start   |-> l.current_val,
                 val_end     |-> ValEnd(l) ])

\* Lines 148-154: the fold is appended only if both subsets have rows.
AppendFold(fs, df, l) ==
    IF Cardinality(TrainRows(df, l)) > 0 /\ Cardinality(ValRows(df, l)) > 0
    THEN Append(fs, [ train       |-> TrainRows(df, l),
                      val         |-> ValRows(df, l),
                      train_start |-> l.train_start_dt,
                      val_start   |-> l.current_val,
                      val_end     |-> ValEnd(l) ])
    ELSE fs

\* Variant of Advance: the position moves by one month whatever the window.
AdvanceOneMonth(l) ==
    [l EXCEPT !.current_val = AddMonths(l.current_val, 1), !.fold_num = l.fold_num + 1]

\* Lines 156-157.
Advance(l) == [l EXCEPT !.current_val = ValEnd(l), !.fold_num = l.fold_num + 1]

\* generate_holdout_test with its default arguments: (train_df, test_df).
generate_holdout_test(df) ==
    [ train |-> RowsIn(df, Timestamp(TRAIN_START_DATE), Timestamp(TEST_START_DATE)),
      test  |-> RowsIn(df, Timestamp(TEST_START_DATE), Timestamp(TEST_END_DATE)) ]

\* Reference dates a sample table may hold.
RowDates == { Date(2024, 3, 1), Date(2024, 9, 1), Date(2025, 1, 31),
              Date(2025, 3, 15), Date(2025, 6, 30), Date(2025, 7, 1),
              Date(2025, 12, 31) }
TrainStartArgs == {NoDate, <<2024, 12, 31>>}
ValStartArgs == {NoDate, <<2025, 1, 31>>, <<2025, 5, 1>>}
ValEndArgs == {NoDate, <<2025, 4, 30>>}
WindowArgs == (-1)..MaxWindow

FoldsArgs ==
    [ df : SUBSET RowDates,
      train_start : TrainStartArgs,
      val_start_month : ValStartArgs,
      val_end_month : ValEndArgs,
      window_months : WindowArgs ]

FoldsInit ==
    /\ EnsInit
    /\ call = NoCall
    /\ ScorerIdle
    /\ args \in FoldsArgs
    /\ pc = "start"
    /\ loop = <<>>
    /\ folds = <<>>

\* Variant of LoopCondition: the loop runs until the position equals the last
\* validation start.
LoopConditionNotEqual(l) == l.current_val # l.last_val

\* Line 108: while current_val <= last_val.
LoopCondition(l) == l.current_val <= l.last_val

\* Lines 86-107: the call is entered.
FoldsBegin ==
    /\ pc = "start"
    /\ loop' = FoldsLocals(args)
    /\ pc' = "loop"
    /\ UNCHANGED <<args, folds, otherThanFolds>>

\* Lines 108-157: one iteration of the while loop.
FoldsIterate ==
    /\ pc = "loop"
    /\ LoopCondition(loop)
    /\ loop.fold_num <= MaxIter
    /\ folds' = AppendFold(folds, args.df, loop)
    /\ loop' = Advance(loop)
    /\ UNCHANGED <<args, pc, otherThanFolds>>

\* Lines 108 and 159-160: the loop condition fails and the folds are returned.
FoldsReturn ==
    /\ pc = "loop"
    /\ ~LoopCondition(loop)
    /\ pc' = "done"
    /\ UNCHANGED <<args, loop, folds, otherThanFolds>>

FoldsNext == FoldsBegin \/ FoldsIterate \/ FoldsReturn

FoldsSpec == FoldsInit /\ [][FoldsNext]_vars

\* The interpreter keeps executing a call that has a next statement.
FoldsFairSpec == FoldsSpec /\ WF_vars(FoldsNext)

\* ------------------------------------------------------ training data loader

\* ml.training_samples holds at most MaxRows rows.
MaxRows == 2

DATA_CUTOFF_DATE == <<2026, 2, 10>>

SampleRow(d, l, f, p, c) ==
    [ reference_date          |-> d,
      label_type              |-> l,
      has_open_receivable     |-> f,
      days_since_last_payment |-> p,
      days_since_last_checkin |-> c ]

\* Reference dates around the training start and the data cutoff.
LoadDates == { Date(2024, 2, 29), Date(2026, 2, 9), Date(2026, 2, 10),
               Date(2026, 2, 11) }
LabelTypes == {"CHURN", "VOID"}
PaymentAges == {CONTRACT_RENEWAL_CYCLE_DAYS, CONTRACT_RENEWAL_CYCLE_DAYS + 1, NaN}
CheckinAges == {5, NaN}
\* The rows the stored table may hold: every date and label with one set of
\* feature values, and every set of feature values on one date.
LoaderRows ==
    {SampleRow(d, l, 1, CONTRACT_RENEWAL_CYCLE_DAYS + 1, NaN) :
        d \in LoadDates, l \in LabelTypes}
    \cup {SampleRow(Date(2026, 2, 9), "CHURN", f, p, c) :
        f \in Flags, p \in PaymentAges, c \in CheckinAges}
StoredTables == UNION {[1..n -> LoaderRows] : n \in 0..MaxRows}
LoadArgs ==
    [ table      : StoredTables,
      has_cols   : BOOLEAN,
      start_date : {NoDate, <<2024, 2, 1>>},
      end_date   : {NoDate, <<2026, 3, 1>>} ]

\* ORDER BY reference_date, member_id: a stable insertion by date (a row's
\* member_id is its position in the stored table).
RECURSIVE OrderByDate(_)
InsertByDate(sorted, r) ==
    LET before == SelectSeq(sorted, LAMBDA x : x.reference_date <= r.reference_date)
        after  == SelectSeq(sorted, LAMBDA x : x.reference_date > r.reference_date)
    IN before \o <<r>> \o after
OrderByDate(rows) ==
    IF rows = <<>> THEN <<>>
    ELSE InsertByDate(OrderByDate(SubSeq(rows, 1, Len(rows) - 1)), rows[Len(rows)])

\* Lines 53-71: the query with its parameters.
ReadSql(table, start_date, end_date) ==
    OrderByDate(SelectSeq(table, LAMBDA r :
        /\ r.reference_date >= Timestamp(start_date)
        /\ r.reference_date < Timestamp(end_date)
        /\ r.label_type \in {"CHURN", "ACTIVE"}))

\* _add_derived_features on a loaded row; a table without the two payment
\* columns shows them as Absent.
DeriveRow(r, has_cols) ==
    LET d == add_derived_features(
                 [ days_since_last_checkin |-> r.days_since_last_checkin,
                   has_open_receivable     |->
                       IF has_cols THEN r.has_open_receivable ELSE Absent,
                   days_since_last_payment |->
                       IF has_cols THEN r.days_since_last_payment ELSE Absent ])
    IN [ reference_date          |-> r.reference_date,
         label_type              |-> r.label_type,
         days_since_last_checkin |-> d.days_since_last_checkin,
         has_open_receivable     |-> d.has_open_receivable,
         days_since_last_payment |-> d.days_since_last_payment,
         has_ever_checked_in     |-> d.has_ever_checked_in,
         is_defaulter            |-> d.is_defaulter ]

\* _validate_no_leakage, check 2 (checks 1 and 3 only log).
validate_no_leakage(df) ==
    LET cutoff == Timestamp(DATA_CUTOFF_DATE)
        future_refs == SelectSeq(df, LAMBDA r : r.reference_date > cutoff)
    IN IF Len(future_refs) > 0 THEN Raised("ValueError") ELSE Returned(df)

load_training_data(a) ==
    LET start_date == OrDate(a.start_date, TRAIN_START_DATE)
        end_date == OrDate(a.end_date, DATA_CUTOFF_DATE)
        df == ReadSql(a.table, start_date, end_date)
        derived == [i \in 1..Len(df) |-> DeriveRow(df[i], a.has_cols)]
    IN validate_no_leakage(derived)

LoaderInit ==
    /\ EnsInit
    /\ FoldsIdle
    /\ ScorerIdle
    /\ call \in {Pending("load_training_data", a) : a \in LoadArgs}

LoadTrainingData ==
    /\ call.fn = "load_training_data" /\ ~call.done
    /\ call' = [call EXCEPT !.done = TRUE, !.ret = load_training_data(call.arg)]
    /\ UNCHANGED otherThanRules

LoaderNext == LoadTrainingData

LoaderSpec == LoaderInit /\ [][LoaderNext]_vars

\* ------------------------------------------------------------ batch scorer

\* A scoring run loads at most MaxMembers active members.
MaxMembers == 20
\* At most MaxRuns scoring runs are made, on score dates 1..MaxDates.
MaxRuns == 2
MaxDates == 2

\* ModelConfig.NULL_RATE_CIRCUIT_BREAKER and the check-in threshold of
\* _check_null_rates, in percent.
NULL_RATE_CIRCUIT_BREAKER == 5
CHECKIN_NULL_THRESHOLD == 45

checkin_features ==
    { "days_since_last_checkin", "checkins_last_7d", "checkins_last_14d",
      "checkins_last_30d", "checkins_last_90d", "checkin_trend",
      "avg_weekly_checkins_90d", "checkin_consistency" }

\* The features of FEATURE_CONFIG.ALL_FEATURES that are followed: one of the
\* check-in group and one other.
ScoredFeatures == {"checkins_last_7d", "tenure_days"}

\* The loaded table is described by its number of rows and, for each feature,
\* either Absent (the table lacks the column) or the number of rows whose
\* value is NaN.
col_threshold(f) ==
    IF f \in checkin_features THEN CHECKIN_NULL_THRESHOLD
    ELSE NULL_RATE_CIRCUIT_BREAKER

\* Lines 213-225: the columns whose NULL rate is above their threshold; a
\* column the table lacks is passed over (line 214).
critical_nulls(feats, n) ==
    {f \in ScoredFeatures :
        /\ feats[f] # Absent
        /\ 100 * feats[f] > col_threshold(f) * n}

\* _prepare_features: the number of NaN values of a feature in X; a column
\* the table lacks is filled with NaN in every row (lines 257-261).
MissingInX(feats, f, n) == IF feats[f] = Absent THEN n ELSE feats[f]

\* The records of one run (lines 342-369 and 396-407); scored_at is the
\* number of the run.
Records(r, members) ==
    {[member_id |-> m, score_date |-> r.date, scored_at |-> r.id] : m \in members}

\* Variant of DeleteDay: nothing is deleted.
DeleteNothing(rows, sd) == rows

\* DELETE FROM ml.churn_predictions WHERE score_date = :sd
DeleteDay(rows, sd) == {r \in rows : r.score_date # sd}

\* Variant of Rollback: the work of the failed transaction stays.
RollbackKeepsWork(committed, work) == work

\* "with engine.begin()" left by an exception: the transaction is rolled back.
Rollback(committed, work) == committed

\* The table rows of one score date.
DayRows(rows, sd) == {r \in rows : r.score_date = sd}

RunFinished == run.pc \in {"idle", "returned", "raised"}

\* Null counts that are followed for a table of n rows: few, all, and those
\* around the check-in threshold.
NullCounts(n) ==
    {k \in 0..n : k <= 2 \/ k = n \/ (100 * k >= 40 * n /\ 100 * k <= 50 * n)}
MemberCounts == {0, 1, MaxMembers}
ScoreDates == 1..MaxDates

\* BatchScorer(...) is constructed (score_date = today) and run() is entered;
\* the members the load will find are fixed here.
StartRun(d, n, feats) ==
    /\ RunFinished
    /\ run.id < MaxRuns
    /\ d >= run.date
    /\ run' = [ pc |-> "refresh", id |-> run.id + 1, date |-> d, n |-> n,
                feats |-> feats, tx |-> {}, predicted |-> FALSE, res |-> "none",
                at |-> "none", partial |-> 0 ]
    /\ obs' = [obs EXCEPT !.before = db.predictions]
    /\ UNCHANGED <<db, otherThanScorer>>

\* Step 1.
RefreshViews ==
    /\ run.pc = "refresh"
    /\ run' = [run EXCEPT !.pc = "load"]
    /\ UNCHANGED <<db, obs, otherThanScorer>>

\* Step 2: an empty table ends the run at once.
LoadActiveMembers ==
    /\ run.pc = "load"
    /\ run' = IF run.n = 0
              THEN [run EXCEPT !.pc = "returned", !.res = "total_scored_0",
                               !.at = "load"]
              ELSE [run EXCEPT !.pc = "gate"]
    /\ UNCHANGED <<db, obs, otherThanScorer>>

\* Step 3: _check_null_rates.
CheckNullRates ==
    /\ run.pc = "gate"
    /\ IF critical_nulls(run.feats, run.n) # {}
       THEN /\ run' = [run EXCEPT !.pc = "raised", !.res = "RuntimeError",
                                   !.at = "gate"]
            /\ obs' = [obs EXCEPT !.allok = FALSE]
       ELSE /\ run' = [run EXCEPT !.pc = "predict"]
            /\ obs' = obs
    /\ UNCHANGED <<db, otherThanScorer>>

\* Step 4: _prepare_features, predict_proba, predict_risk_tier.
PredictStep ==
    /\ run.pc = "predict"
    /\ run' = [run EXCEPT !.pc = "classify", !.predicted = TRUE]
    /\ UNCHANGED <<db, obs, otherThanScorer>>

\* Steps 5 and 6: classify_churn_type, assign_playbook.
ClassifyStep ==
    /\ run.pc = "classify"
    /\ run' = [run EXCEPT !.pc = "explain"]
    /\ UNCHANGED <<db, obs, otherThanScorer>>

\* Steps 7 and 8: _compute_shap_all, _add_context_columns.
ExplainStep ==
    /\ run.pc = "explain"
    /\ run' = [run EXCEPT !.pc = "write"]
    /\ UNCHANGED <<db, obs, otherThanScorer>>

\* _write_predictions, lines 321-326: the transaction begins and the day's
\* rows are deleted in it.
WriteDelete ==
    /\ run.pc = "write"
    /\ run' = [run EXCEPT !.pc = "insert", !.tx = DeleteDay(db.predictions, run.date)]
    /\ UNCHANGED <<db, obs, otherThanScorer>>

\* _write_predictions, lines 328-371: the records are inserted and the
\* transaction commits.
WriteInsert ==
    /\ run.pc = "insert"
    /\ db' = [db EXCEPT !.predictions = run.tx \cup Records(run, 1..run.n)]
    /\ run' = [run EXCEPT !.pc = "history", !.tx = {}]
    /\ UNCHANGED <<obs, otherThanScorer>>

\* Variant of InsertInto: the rows of the same score dates are replaced.
InsertReplacingDay(table, records) ==
    {r \in table : \A n \in records : n.score_date # r.score_date} \cup records

\* INSERT INTO table VALUES records
InsertInto(table, records) == table \cup records

\* _append_to_history.
AppendToHistory ==
    /\ run.pc = "history"
    /\ db' = [db EXCEPT !.history = InsertInto(db.history, Records(run, 1..run.n))]
    /\ run' = [run EXCEPT !.pc = "summary"]
    /\ UNCHANGED <<obs, otherThanScorer>>

\* Step 10: _log_summary, and run returns.
LogSummary ==
    /\ run.pc = "summary"
    /\ run' = [run EXCEPT !.pc = "returned", !.res = "summary", !.at = "summary"]
    /\ obs' = [obs EXCEPT !.latest = (run.date :> Records(run, 1..run.n)) @@ obs.latest]
    /\ UNCHANGED <<db, otherThanScorer>>

\* A step outside a transaction raises (database or model error).
StepRaises ==
    /\ run.pc \in {"refresh", "load", "gate", "predict", "classify", "explain",
                    "write", "summary"}
    /\ run' = [run EXCEPT !.pc = "raised", !.res = "Exception", !.at = run.pc]
    /\ obs' = [obs EXCEPT !.allok = FALSE]
    /\ UNCHANGED <<db, otherThanScorer>>

\* The insert raises after j of the records went in: the transaction of
\* _write_predictions is rolled back.
InsertRaises(j) ==
    /\ run.pc = "insert"
    /\ db' = [db EXCEPT !.predictions =
                 Rollback(db.predictions, run.tx \cup Records(run, 1..j))]
    /\ run' = [run EXCEPT !.pc = "raised", !.res = "Exception", !.tx = {},
                          !.at = "insert", !.partial = j]
    /\ obs' = [obs EXCEPT !.allok = FALSE]
    /\ UNCHANGED otherThanScorer

\* The history insert raises after j of the records went in.
HistoryRaises(j) ==
    /\ run.pc = "history"
    /\ db' = [db EXCEPT !.history =
                 Rollback(db.history, db.history \cup Records(run, 1..j))]
    /\ run' = [run EXCEPT !.pc = "raised", !.res = "Exception",
                          !.at = "history", !.partial = j]
    /\ obs' = [obs EXCEPT !.allok = FALSE]
    /\ UNCHANGED otherThanScorer

ScorerInit == EnsInit /\ call = NoCall /\ FoldsIdle /\ ScorerIdle

ScorerNext ==
    \/ \E d \in ScoreDates, n \in MemberCounts :
          \E feats \in [ScoredFeatures -> NullCounts(n) \cup {Absent}] :
              StartRun(d, n, feats)
    \/ RefreshViews
    \/ LoadActiveMembers
    \/ CheckNullRates
    \/ PredictStep
    \/ ClassifyStep
    \/ ExplainStep
    \/ WriteDelete
    \/ WriteInsert
    \/ AppendToHistory
    \/ LogSummary
    \/ StepRaises
    \/ \E j \in 0..(run.n - 1) : InsertRaises(j)
    \/ \E j \in 0..(run.n - 1) : HistoryRaises(j)

ScorerSpec == ScorerInit /\ [][ScorerNext]_vars

\* --------------------------------------------------- data flow of fit()

\* The sample rows are 1..MaxFitRows; a partition (X with its labels y) is a
\* non-empty set of rows.
MaxFitRows == 4
Partitions == (SUBSET (1..MaxFitRows)) \ {{}}

\* Lines 128-140: a specialist fitted on the training partition with the
\* validation partition as its early-stopping set.
SpecialistFit(name, X_train, X_val) ==
    [name |-> name, X |-> X_train, y |-> X_train, eval_set |-> X_val]

\* model.predict_proba(X)[:, 1]: the predictions of a fitted model for the
\* rows of a partition.
PredictL0(model, X) == [by |-> model, rows |-> X]

\* _build_l1_input: the specialists' predictions next to the passthrough
\* features of the same rows.
build_l1_input(X, l0_preds) == [l0 |-> l0_preds, passthrough |-> X]

\* fit(X_train, y_train, X_val, y_val): what each component is fitted on.
FitDataFlow(X_train, X_val) ==
    LET models == [i \in 1..NumSpecialists |->
                      SpecialistFit(SpecialistNames[i], X_train, X_val)]
        l0_train_preds == [i \in 1..NumSpecialists |-> PredictL0(models[i], X_train)]
        l0_val_preds == [i \in 1..NumSpecialists |-> PredictL0(models[i], X_val)]
        X_l1_train == build_l1_input(X_train, l0_train_preds)
        X_l1_val == build_l1_input(X_val, l0_val_preds)
        meta_learner == [X |-> X_l1_train, y |-> X_train]
        calibrator == [estimator |-> meta_learner, X |-> X_l1_val, y |-> X_val]
    IN [ specialists  |-> models,
         meta_learner |-> meta_learner,
         calibrator   |-> calibrator,
         evaluated_on |-> X_val ]

\* train_final_model, lines 108-127: the holdout split, the exit on an empty
\* test set, and the fit of a new ensemble; split_features_target keeps the
\* rows of its table, so a partition stays the set of its rows.
train_final_model(df) ==
    LET split == generate_holdout_test(df)
        train_df == split.train
        test_df == split.test
    IN IF Cardinality(test_df) = 0
       THEN Raised("SystemExit")
       ELSE Returned(FitDataFlow(train_df, test_df))

\* The sample tables given to train_final_model: those with a row to train on.
FinalTables ==
    {df \in SUBSET RowDates : \E r \in df : r < Timestamp(TEST_START_DATE)}

TrainInit ==
    /\ EnsInit
    /\ FoldsIdle
    /\ ScorerIdle
    /\ call \in {Pending("fit", [X_train |-> tr, X_val |-> va]) :
                    tr \in Partitions, va \in Partitions}
           \cup {Pending("train_final_model", df) : df \in FinalTables}

FitCall ==
    /\ call.fn = "fit" /\ ~call.done
    /\ call' = [call EXCEPT !.done = TRUE,
                            !.ret = FitDataFlow(call.arg.X_train, call.arg.X_val)]
    /\ UNCHANGED otherThanRules

TrainFinalModel ==
    /\ call.fn = "train_final_model" /\ ~call.done
    /\ call' = [call EXCEPT !.done = TRUE, !.ret = train_final_model(call.arg)]
    /\ UNCHANGED otherThanRules

TrainNext == FitCall \/ TrainFinalModel

TrainSpec == TrainInit /\ [][TrainNext]_vars

\* --------------------------------------------------------- SHAP explainer

\* Attributions range over -MaxShap..MaxShap.
MaxShap == 2

\* A feature value: None, a float NaN, a finite number v, an infinity of sign
\* v, a number too large for a float (10**400), or a string.
Value(kind, v) == [kind |-> kind, v |-> v]
NoneValue == Value("None", 0)
RenderValues ==
    {NoneValue, Value("nan", 0), Value("inf", 1), Value("inf", -1),
     Value("huge", 1), Value("str", 0)}
    \cup {Value("num", v) : v \in {-1, 0, 1, 45}}

\* isinstance(value, (int, float))
IsNumber(value) == value.kind \in {"num", "nan", "inf", "huge"}
\* value > c and value <= c for a number; every comparison with NaN is false.
NumGt(value, c) ==
    CASE value.kind = "num" -> value.v > c
      [] value.kind \in {"inf", "huge"} -> value.v > 0
      [] OTHER -> FALSE
NumLe(value, c) ==
    CASE value.kind = "num" -> value.v <= c
      [] value.kind \in {"inf", "huge"} -> value.v < 0
      [] OTHER -> FALSE

\* FEATURE_CONFIG.SHAP_TEMPLATES for six of its features: the placeholders of
\* the template, and whether {value} carries a float format (":.2f").
Template(fields, float_spec) == [fields |-> fields, float_spec |-> float_spec]
SHAP_TEMPLATES ==
    [ days_since_last_checkin |-> Template({"value", "avg"}, FALSE),
      checkin_trend           |-> Template({"pct"}, FALSE),
      has_open_receivable     |-> Template({}, FALSE),
      avg_monthly_payment_90d |-> Template({"value"}, TRUE),
      tenure_days             |-> Template({"months"}, FALSE),
      peak_hour_ratio         |-> Template({"pct"}, FALSE) ]
\* Feature names given to _render_template; checkins_last_14d has no template.
RenderFeatures == DOMAIN SHAP_TEMPLATES \cup {"checkins_last_14d"}

\* A rendered sentence: which text it is, and the computed placeholders (the
\* branch average only fills {avg} and is left out).
Sentence(kind, feature, direction, months, pct) ==
    [ kind |-> kind, feature |-> feature, direction |-> direction,
      months |-> months, pct |-> pct ]
\* f"{feature} {direction} o risco de cancelamento"
Fallback(feature, shap_value) ==
    Sentence("fallback", feature,
             IF shap_value > 0 THEN "aumenta" ELSE "diminui", 0, 0)

\* int(x) of a float expression of the value: the exception it raises, if any.
IntOfRaises(value) ==
    CASE value.kind = "nan" -> "ValueError"
      [] value.kind = "inf" -> "OverflowError"
      [] OTHER -> "none"

\* int(value / 30) if isinstance(value, (int, float)) and value > 0 else 0
MonthsOf(value) ==
    IF IsNumber(value) /\ NumGt(value, 0)
    THEN (IF value.kind = "num" THEN Returned(value.v \div 30)
          ELSE Raised("OverflowError"))
    ELSE Returned(0)

\* Lines 200-208: context["pct"].
PctOf(feature, value) ==
    IF feature = "checkin_trend" /\ IsNumber(value)
    THEN (IF NumLe(value, 1)
          THEN (IF value.kind = "num" THEN Returned((1 - value.v) * 100)
                ELSE Raised("OverflowError"))
          ELSE Returned(0))
    ELSE IF feature \in {"peak_hour_ratio", "weekend_ratio", "payment_regularity"}
            /\ IsNumber(value)
    THEN (IF IntOfRaises(value) = "none" THEN Returned(value.v * 100)
          ELSE Raised(IntOfRaises(value)))
    ELSE Returned(0)

\* template.format(**context): a float format applied to a string raises.
FormatRaises(template, value) ==
    IF template.float_spec /\ value.kind = "str" THEN "ValueError" ELSE "none"

\* except (KeyError, ValueError, TypeError)
CaughtByRender == {"KeyError", "ValueError", "TypeError"}

\* The body of the try block, lines 187-210.
RenderTry(feature, template, value) ==
    IF value.kind = "None" THEN Returned(Sentence("prefix", feature, "", 0, 0))
    ELSE IF MonthsOf(value).err # "none" THEN Raised(MonthsOf(value).err)
    ELSE IF PctOf(feature, value).err # "none" THEN Raised(PctOf(feature, value).err)
    ELSE IF FormatRaises(template, value) # "none"
        THEN Raised(FormatRaises(template, value))
    ELSE Returned(Sentence("rendered", feature, "",
                           MonthsOf(value).val, PctOf(feature, value).val))

\* SHAPExplainer._render_template
render_template(feature, value, shap_value) ==
    IF feature \notin DOMAIN SHAP_TEMPLATES
    THEN Returned(Fallback(feature, shap_value))
    ELSE LET r == RenderTry(feature, SHAP_TEMPLATES[feature], value)
         IN IF r.err \in CaughtByRender
            THEN Returned(Fallback(feature, shap_value))
            ELSE r

\* The features of the SHAP matrix, in iteration order.
ShapFeatureNames ==
    <<"days_since_last_checkin", "has_open_receivable", "tenure_days",
      "checkins_last_14d">>
NumShapFeatures == Len(ShapFeatureNames)
ShapRows == [1..NumShapFeatures -> (-MaxShap)..MaxShap]
\* The feature values of the explained row (X.iloc[row_idx]).
ExplainValues == [1..NumShapFeatures -> {Value("nan", 0), Value("num", 45)}]

Abs(x) == IF x < 0 THEN -x ELSE x

\* np.argsort(abs_shap) with the default kind: an ascending order of the
\* indices; the order among equal elements is not specified (the default
\* sort is not a stable one).
Argsorts(abs_shap) ==
    {p \in [1..NumShapFeatures -> 1..NumShapFeatures] :
        /\ \A i, j \in 1..NumShapFeatures : i # j => p[i] # p[j]
        /\ \A i \in 1..(NumShapFeatures - 1) : abs_shap[p[i]] <= abs_shap[p[i + 1]]}

\* order[::-1][:3]
TopIndices(order) ==
    <<order[NumShapFeatures], order[NumShapFeatures - 1], order[NumShapFeatures - 2]>>

\* Lines 139-142: a NaN feature value becomes None.
NativeValue(value) == IF value.kind = "nan" THEN NoneValue ELSE value

\* SHAPExplainer._explain_single, given the order np.argsort returned.
explain_single(shap_values, feature_values, order) ==
    LET top_indices == TopIndices(order)
        reason(idx) ==
            LET feat_value == NativeValue(feature_values[idx])
            IN [ feature     |-> ShapFeatureNames[idx],
                 index       |-> idx,
                 value       |-> feat_value,
                 impact      |-> shap_values[idx],
                 explanation |-> render_template(ShapFeatureNames[idx], feat_value,
                                                 shap_values[idx]) ]
        reasons == [k \in 1..3 |-> reason(top_indices[k])]
    IN IF \E k \in 1..3 : reasons[k].explanation.err # "none"
       THEN Raised((CHOOSE k \in 1..3 : reasons[k].explanation.err # "none").explanation.err)
       ELSE Returned(reasons)

Sign(x) == IF x > 0 THEN 1 ELSE IF x < 0 THEN -1 ELSE 0

\* Lines 100-103: np.maximum(np.abs(existing), np.abs(new)) * np.sign(new),
\* for one row.
MergeAttribution(existing, new) == Max(Abs(existing), Abs(new)) * Sign(new)

RECURSIVE MergeSpecialist(_, _, _, _)
\* Lines 94-103: the attributions sv of one specialist, from its feature
\* number idx on, are entered into all_shap_values.
MergeSpecialist(all_shap_values, features, sv, idx) ==
    IF idx > Len(features) THEN all_shap_values
    ELSE LET feat_name == features[idx]
             merged ==
                 IF feat_name \notin DOMAIN all_shap_values
                 THEN (feat_name :> sv[idx]) @@ all_shap_values
                 ELSE [all_shap_values EXCEPT
                          ![feat_name] = MergeAttribution(all_shap_values[feat_name],
                                                          sv[idx])]
         IN MergeSpecialist(merged, features, sv, idx + 1)

RECURSIVE MergeSpecialists(_, _, _)
\* Lines 79-103 of explain_batch for one row: all_shap_values after the
\* specialists from number k on have been visited in order.
MergeSpecialists(all_shap_values, specialists, k) ==
    IF k > Len(specialists) THEN all_shap_values
    ELSE MergeSpecialists(
             MergeSpecialist(all_shap_values, specialists[k].features,
                             specialists[k].sv, 1),
             specialists, k + 1)

\* Two specialists: the second shares has_open_receivable with the first, or
\* shares nothing.
MergeArgs ==
    {<<[features |-> f1, sv |-> sv1], [features |-> f2, sv |-> sv2]>> :
        f1 \in {<<"days_since_last_checkin", "has_open_receivable">>},
        f2 \in {<<"has_open_receivable", "tenure_days">>,
                <<"tenure_days", "checkins_last_14d">>},
        sv1 \in [1..2 -> (-MaxShap)..MaxShap],
        sv2 \in [1..2 -> (-MaxShap)..MaxShap]}

ExplainInit ==
    /\ EnsInit
    /\ FoldsIdle
    /\ ScorerIdle
    /\ call \in {Pending("explain_single", [shap_values |-> sv, feature_values |-> fv]) :
                    sv \in ShapRows, fv \in ExplainValues}
           \cup {Pending("explain_batch", specialists) : specialists \in MergeArgs}
           \cup {Pending("render_template", [feature |-> f, value |-> v, shap_value |-> sv]) :
                    f \in RenderFeatures, v \in RenderValues, sv \in (-1)..1}

ExplainSingle(order) ==
    /\ call.fn = "explain_single" /\ ~call.done
    /\ call' = [call EXCEPT !.done = TRUE,
                            !.ret = explain_single(call.arg.shap_values,
                                                   call.arg.feature_values, order)]
    /\ UNCHANGED otherThanRules

RenderTemplate ==
    /\ call.fn = "render_template" /\ ~call.done
    /\ call' = [call EXCEPT !.done = TRUE,
                            !.ret = render_template(call.arg.feature, call.arg.value,
                                                    call.arg.shap_value)]
    /\ UNCHANGED otherThanRules

\* explain_batch up to the merged attributions of the row.
ExplainBatchMerge ==
    /\ call.fn = "explain_batch" /\ ~call.done
    /\ call' = [call EXCEPT !.done = TRUE,
                            !.ret = Returned(MergeSpecialists(<<>>, call.arg, 1))]
    /\ UNCHANGED otherThanRules

ExplainNext ==
    \/ ExplainBatchMerge
    \/ /\ call.fn = "explain_single"
       /\ \E order \in Argsorts([i \in 1..NumShapFeatures |->
                                    Abs(call.arg.shap_values[i])]) :
              ExplainSingle(order)
    \/ RenderTemplate

ExplainSpec == ExplainInit /\ [][ExplainNext]_vars

\* ---------------------------------------------------------- drift monitor

\* An array of samples holds up to MaxSamples copies of each sample value.
MaxSamples == 10

\* PSI values are written in units of 0.00001, hit rates in units of 0.0001.
PSI_DRIFT_THRESHOLD == 20000
PSI_WARNING_THRESHOLD == 10000
HIT_RATE_MIN_THRESHOLD == 5000
\* compute_psi: the default n_bins, and the fewest values it computes from.
DEFAULT_N_BINS == 10
MIN_PSI_VALUES == 10

RECURSIVE SortedSeqOfSet(_)
\* The members of a set of numbers in increasing order.
SortedSeqOfSet(S) ==
    IF S = {} THEN <<>>
    ELSE LET least == CHOOSE x \in S : \A y \in S : x <= y
         IN <<least>> \o SortedSeqOfSet(S \ {least})

RECURSIVE SortedCopies(_, _)
\* The values in todo in increasing order, each as often as it occurs in xs.
SortedCopies(xs, todo) ==
    IF todo = {} THEN <<>>
    ELSE LET least == CHOOSE x \in todo : \A y \in todo : x <= y
         IN [i \in 1..Cardinality({j \in 1..Len(xs) : xs[j] = least}) |-> least]
                \o SortedCopies(xs, todo \ {least})

\* np.sort of an array without NaN.
SortArray(xs) == SortedCopies(xs, {xs[i] : i \in 1..Len(xs)})

\* values[~np.isnan(values)]
DropNaN(xs) == SelectSeq(xs, LAMBDA x : x # NaN)

\* np.percentile(values, np.linspace(0, 100, n_bins + 1)), linear
\* interpolation between the two nearest ranks; every result is written
\* multiplied by n_bins, which makes it an integer.
Percentiles(xs, n_bins) ==
    LET s == SortArray(xs)
        n == Len(s)
    IN [k \in 1..(n_bins + 1) |->
           LET h == (n - 1) * (k - 1)
               i == h \div n_bins
               r == h % n_bins
               lo == s[i + 1]
               hi == s[Min(i + 2, n)]
           IN lo * n_bins + (hi - lo) * r]

\* np.unique: the distinct values, sorted.
Unique(xs) == SortedSeqOfSet({xs[i] : i \in 1..Len(xs)})

\* np.histogram(values, bins=edges)[0] with the last bin open on the right.
HistogramRightOpen(xs, edges, n_bins) ==
    [j \in 1..(Len(edges) - 1) |->
        Cardinality({i \in 1..Len(xs) :
            /\ xs[i] # NaN
            /\ edges[j] <= xs[i] * n_bins
            /\ xs[i] * n_bins < edges[j + 1]})]

\* np.histogram(values, bins=edges)[0]: one count for each pair of
\* neighbouring edges, the left edge included, the right edge excluded
\* except in the last bin; values outside the edges are not counted. The
\* edges are written multiplied by n_bins. One edge gives no bin.
Histogram(xs, edges, n_bins) ==
    [j \in 1..(Len(edges) - 1) |->
        Cardinality({i \in 1..Len(xs) :
            /\ xs[i] # NaN
            /\ edges[j] <= xs[i] * n_bins
            /\ \/ xs[i] * n_bins < edges[j + 1]
               \/ j = Len(edges) - 1 /\ xs[i] * n_bins = edges[j + 1]})]

\* actual_counts = np.histogram(actual, bins=breakpoints)[0]
ActualCounts(actual, breakpoints, n_bins) == Histogram(actual, breakpoints, n_bins)

RECURSIVE SumSeq(_)
SumSeq(xs) == IF xs = <<>> THEN 0 ELSE Head(xs) + SumSeq(Tail(xs))

\* (counts + eps) / (counts.sum() + eps * len(counts)): each proportion is
\* kept as its three integers.
Proportions(counts) ==
    [j \in 1..Len(counts) |->
        [count |-> counts[j], total |-> SumSeq(counts), bins |-> Len(counts)]]

\* Two proportions are the same number: with eps = 1e-6 and counts far below
\* 1/eps, (c1 + eps) * (t2 + eps * b2) = (c2 + eps) * (t1 + eps * b1) holds
\* exactly when the coefficients of eps^0 and eps^1 agree.
SameProportion(p, q) ==
    /\ p.count * q.total = q.count * p.total
    /\ p.count * q.bins + q.total = q.count * p.bins + p.total

\* A PSI above zero, whatever its value.
PositivePsi == 1

\* compute_psi. Every term (a - e) * ln(a / e) of the sum is 0 when a = e and
\* above 0 otherwise, so the sum is 0 exactly when all proportions agree; the
\* result is 0 or PositivePsi.
compute_psi(expected_in, actual_in, n_bins) ==
    LET expected == DropNaN(expected_in)
        actual == DropNaN(actual_in)
    IN IF Len(expected) < MIN_PSI_VALUES \/ Len(actual) < MIN_PSI_VALUES
       THEN 0
       ELSE LET breakpoints == Unique(Percentiles(expected, n_bins))
                expected_counts == Histogram(expected, breakpoints, n_bins)
                actual_counts == ActualCounts(actual, breakpoints, n_bins)
                expected_pct == Proportions(expected_counts)
                actual_pct == Proportions(actual_counts)
            IN IF \A j \in 1..Len(expected_pct) :
                      SameProportion(actual_pct[j], expected_pct[j])
               THEN 0
               ELSE PositivePsi

\* The status of one feature with >= in place of >.
DriftStatusInclusive(psi) ==
    IF psi >= PSI_DRIFT_THRESHOLD THEN "ALERT"
    ELSE IF psi >= PSI_WARNING_THRESHOLD THEN "WARNING"
    ELSE "OK"

\* check_feature_drift: the status of one feature from its PSI.
DriftStatus(psi) ==
    IF psi > PSI_DRIFT_THRESHOLD THEN "ALERT"
    ELSE IF psi > PSI_WARNING_THRESHOLD THEN "WARNING"
    ELSE "OK"

\* round(x, 4) of a PSI written in units of 0.00001 (half to even).
RoundPsi(psi) ==
    LET q == psi \div 10
        r == psi % 10
    IN IF r > 5 \/ (r = 5 /\ q % 2 = 1) THEN (q + 1) * 10 ELSE q * 10

\* round(num / den, 4) in units of 0.0001 (half to even).
RoundRatio(num, den) ==
    LET q == (num * 10000) \div den
        r == (num * 10000) % den
    IN IF 2 * r > den \/ (2 * r = den /\ q % 2 = 1) THEN q + 1 ELSE q

\* check_feature_drift, from the PSI compute_psi gave for each feature found
\* in both snapshots.
check_feature_drift(psis) ==
    [f \in DOMAIN psis |-> [psi |-> RoundPsi(psis[f]), status |-> DriftStatus(psis[f])]]

\* check_concept_drift, from the monthly rows of the query; rates in percent,
\* drift_ratio in percent rounded down.
check_concept_drift(months) ==
    [mth \in DOMAIN months |->
        [predicted_rate |-> months[mth].predicted,
         actual_rate |-> months[mth].actual,
         drift_ratio |-> (Abs(months[mth].predicted - months[mth].actual) * 100)
                             \div Max(months[mth].actual, 1)]]

\* check_hit_rate_by_tier, from the rows of the query (one for each tier that
\* has verified predictions).
check_hit_rate_by_tier(tiers) ==
    [tier \in DOMAIN tiers |->
        [total |-> tiers[tier].total,
         true_positives |-> tiers[tier].tp,
         recovered |-> tiers[tier].recovered,
         hit_rate |-> RoundRatio(tiers[tier].tp + tiers[tier].recovered,
                                 Max(tiers[tier].total, 1))]]

\* run_full_check, from what the three queries return.
run_full_check(psis, months, tiers) ==
    LET feature_drift == check_feature_drift(psis)
        concept_drift == check_concept_drift(months)
        hit_rate == check_hit_rate_by_tier(tiers)
        has_alert == \E f \in DOMAIN feature_drift : feature_drift[f].status = "ALERT"
        low_hit_rate == \E tier \in DOMAIN hit_rate \cap {"HIGH", "MEDIUM"} :
                            hit_rate[tier].hit_rate < HIT_RATE_MIN_THRESHOLD
    IN [feature_drift |-> feature_drift,
        concept_drift |-> concept_drift,
        hit_rate |-> hit_rate,
        overall_status |-> IF has_alert \/ low_hit_rate
                           THEN "RETRAIN_RECOMMENDED" ELSE "HEALTHY"]

\* Sample arrays: up to MaxSamples copies of each of 0, 1, 2 and at most one NaN.
SampleCounts == {0, 5, MaxSamples}
SampleArray(c0, c1, cn, c2) ==
    [i \in 1..c0 |-> 0] \o [i \in 1..c1 |-> 1] \o [i \in 1..cn |-> NaN]
        \o [i \in 1..c2 |-> 2]
SampleArrays ==
    {SampleArray(c0, c1, cn, c2) :
        c0 \in SampleCounts, c1 \in SampleCounts, cn \in {0, 1}, c2 \in SampleCounts}

DriftFeatures == {"tenure_days", "checkins_last_7d"}
PsiValues == {0, 9999, 10000, 10001, 10004, 10005, 19999, 20000, 20001, 20004, 30000}
FullCheckPsis == {0, 10001, 20000, 20001}
PsiReports(values) ==
    UNION {[fs -> values] : fs \in SUBSET DriftFeatures}
\* Monthly rows: predicted and actual churn rate in percent.
MonthReports ==
    {<<>>} \cup {<<[predicted |-> p, actual |-> a]>> : p \in {10, 50}, a \in {0, 10}}
\* Tier rows: the hit rates 0, 0.25, 0.5, 0.75 and, over 25000 predictions,
\* 0.49996 and 0.5.
TierRows ==
    {[total |-> 4, tp |-> 0, recovered |-> 0],
     [total |-> 4, tp |-> 1, recovered |-> 0],
     [total |-> 4, tp |-> 1, recovered |-> 1],
     [total |-> 4, tp |-> 2, recovered |-> 1],
     [total |-> 25000, tp |-> 12499, recovered |-> 0],
     [total |-> 25000, tp |-> 12000, recovered |-> 500]}
TierReports ==
    UNION {[ts -> TierRows] : ts \in SUBSET {"HIGH", "MEDIUM", "LOW"}}

DriftInit ==
    /\ EnsInit
    /\ FoldsIdle
    /\ ScorerIdle
    /\ call \in {Pending("compute_psi", [expected |-> e, actual |-> a]) :
                    e \in SampleArrays, a \in SampleArrays}
           \cup {Pending("check_feature_drift", psis) : psis \in PsiReports(PsiValues)}
           \cup {Pending("run_full_check", [psis |-> psis, months |-> ms, tiers |-> ts]) :
                    psis \in PsiReports(FullCheckPsis), ms \in MonthReports,
                    ts \in TierReports}

ComputePsi ==
    /\ call.fn = "compute_psi" /\ ~call.done
    /\ call' = [call EXCEPT !.done = TRUE,
                            !.ret = Returned(compute_psi(call.arg.expected,
                                                         call.arg.actual, DEFAULT_N_BINS))]
    /\ UNCHANGED otherThanRules

CheckFeatureDrift ==
    /\ call.fn = "check_feature_drift" /\ ~call.done
    /\ call' = [call EXCEPT !.done = TRUE,
                            !.ret = Returned(check_feature_drift(call.arg))]
    /\ UNCHANGED otherThanRules

RunFullCheck ==
    /\ call.fn = "run_full_check" /\ ~call.done
    /\ call' = [call EXCEPT !.done = TRUE,
                            !.ret = Returned(run_full_check(call.arg.psis, call.arg.months,
                                                            call.arg.tiers))]
    /\ UNCHANGED otherThanRules

DriftNext == ComputePsi \/ CheckFeatureDrift \/ RunFullCheck

DriftSpec == DriftInit /\ [][DriftNext]_vars

\* ----------------------------------------------------------------- properties

\* C1: as long as neither fit nor load has run to completion on the object
\* (fit or load calls that raised part-way included), predict_proba raises the
\* invalid-state error (RuntimeError) and returns no probabilities.
C1_PredictBeforeFitRaises ==
    (out.op = "predict_proba" /\ ~completed) => out.res = Raised("RuntimeError")

\* C1 witness: predict_proba was called on an object that a failed fit or load
\* left with its first specialist set, and it raised the invalid-state error.
C1_Witness ==
    /\ out.op = "predict_proba"
    /\ ~completed
    /\ ensemble.specialists[1] # NoneVal
    /\ out.res.err = "RuntimeError"

IsPresent(m) == m # NoneVal
AllPresent(s) ==
    /\ \A i \in 1..NumSpecialists : IsPresent(s.specialists[i])
    /\ IsPresent(s.meta_learner)
    /\ IsPresent(s.calibrator)
AllAbsent(s) ==
    /\ \A i \in 1..NumSpecialists : ~IsPresent(s.specialists[i])
    /\ ~IsPresent(s.meta_learner)
    /\ ~IsPresent(s.calibrator)

\* C2: in every reachable state the ensemble is never partially fitted: the
\* four specialist models, the meta-learner and the calibrator are all present
\* or all absent.
C2_NeverPartiallyFitted == AllPresent(ensemble) \/ AllAbsent(ensemble)

\* C3: save(d) of a fitted ensemble E followed by load(d) on a freshly
\* constructed ensemble restores E's specialist models, meta-learner,
\* calibrator, class weight and training metrics, and predict_proba then gives
\* on every batch what it gave on E.
C3_SaveLoadRoundTrip ==
    ( /\ out.op = "load"
      /\ out.res.err = "none"
      /\ out.fresh
      /\ saved[out.d] # <<>>
      /\ saved[out.d][1].is_fitted )
    => LET E == saved[out.d][1]
       IN /\ ensemble.specialists = E.specialists
          /\ ensemble.meta_learner = E.meta_learner
          /\ ensemble.calibrator = E.calibrator
          /\ ensemble.scale_pos_weight = E.scale_pos_weight
          /\ ensemble.training_metrics = E.training_metrics
          /\ \A x \in Batches :
                PredictProbaResult(ensemble, x) = PredictProbaResult(E, x)

\* C3 witness: a fresh ensemble has loaded the directory a fitted ensemble was
\* saved to, and it predicts on a complete batch.
C3_Witness ==
    /\ out.op = "load"
    /\ out.res.err = "none"
    /\ out.fresh
    /\ saved[out.d] # <<>>
    /\ saved[out.d][1].is_fitted
    /\ AllPresent(saved[out.d][1])
    /\ PredictProbaResult(ensemble, [complete |-> TRUE]).err = "none"

Risk(tier) == CASE tier = "LOW" -> 0 [] tier = "MEDIUM" -> 1 [] tier = "HIGH" -> 2

\* C4: predict_risk_tier is a monotonic step function of the probability:
\* p >= 0.70 gives HIGH, 0.40 <= p < 0.70 gives MEDIUM, p < 0.40 gives LOW
\* (so 0.70 itself is HIGH and 0.40 itself is MEDIUM), and for p <= q the tier
\* of q is at least as risky as the tier of p.
C4_RiskTierStepFunction ==
    (call.fn = "predict_risk_tier" /\ call.done) =>
        LET p == call.arg
            tier == call.ret[1]
        IN /\ DOMAIN tier = DOMAIN p
           /\ \A i \in DOMAIN p :
                /\ (p[i] >= 70) => tier[i] = "HIGH"
                /\ (p[i] >= 40 /\ p[i] < 70) => tier[i] = "MEDIUM"
                /\ (p[i] < 40) => tier[i] = "LOW"
           /\ \A i, j \in DOMAIN p : p[i] <= p[j] => Risk(tier[i]) <= Risk(tier[j])

\* C4 witness: the two boundary values were classified.
C4_Witness ==
    /\ call.fn = "predict_risk_tier" /\ call.done
    /\ call.arg = <<70, 40>>
    /\ call.ret[1] = <<"HIGH", "MEDIUM">>

\* The priority rule as the specification words it.
C5_Rule(row) ==
    LET defaulter == row.is_defaulter = 1
        behavioral ==
            /\ \/ (row.days_since_last_checkin # NaN /\ row.days_since_last_checkin >= 10)
               \/ row.has_ever_checked_in = 0
            /\ ~defaulter
        financial == row.has_open_receivable = 1 /\ ~defaulter
    IN IF row.risk_tier \notin {"HIGH", "MEDIUM"} THEN "NONE"
       ELSE IF defaulter THEN "DEFAULT"
       ELSE IF behavioral /\ financial THEN "FULL"
       ELSE IF behavioral THEN "BEHAVIORAL"
       ELSE IF financial THEN "FINANCIAL"
       ELSE "NONE"

\* C5: classify_churn_type is total and exclusive: every combination of inputs
\* gets exactly one of DEFAULT, FULL, BEHAVIORAL, FINANCIAL, NONE, the one the
\* priority rule names, and a defaulter is never BEHAVIORAL, FINANCIAL or FULL.
C5_ChurnTypePriority ==
    (call.fn = "classify_churn_type" /\ call.done) =>
        /\ Len(call.ret) = 1
        /\ call.ret[1] \in {"DEFAULT", "FULL", "BEHAVIORAL", "FINANCIAL", "NONE"}
        /\ call.ret[1] = C5_Rule(call.arg)
        /\ (call.arg.is_defaulter = 1) =>
                call.ret[1] \notin {"BEHAVIORAL", "FINANCIAL", "FULL"}

\* C5 witness: a MEDIUM-tier member who is no defaulter, has been absent for
\* 10 days and has an open receivable was classified FULL.
C5_Witness ==
    /\ call.fn = "classify_churn_type" /\ call.done
    /\ call.arg.risk_tier = "MEDIUM"
    /\ call.arg.is_defaulter = 0
    /\ call.arg.days_since_last_checkin = 10
    /\ call.arg.has_open_receivable = 1
    /\ call.ret = <<"FULL">>

PlaybookIds == { "PB_HIGH_BEHAVIORAL", "PB_HIGH_FINANCIAL", "PB_HIGH_FULL",
                 "PB_MEDIUM_BEHAVIORAL", "PB_MEDIUM_FINANCIAL", "PB_LOW_ACTIVE" }

\* C6: assign_playbook is total: every (tier, churn type) pair gets a playbook
\* id without raising; a pair of the mapping gets its mapped id and every other
\* pair gets PB_LOW_ACTIVE.
C6_PlaybookTotal ==
    (call.fn = "assign_playbook" /\ call.done) =>
        LET key == <<call.arg[1], "_", call.arg[2]>>
        IN /\ call.ret[1] \in PlaybookIds
           /\ (key \in DOMAIN PLAYBOOK_MAPPING) => call.ret[1] = PLAYBOOK_MAPPING[key]
           /\ (key \notin DOMAIN PLAYBOOK_MAPPING) => call.ret[1] = "PB_LOW_ACTIVE"

\* C6 witness: a pair the mapping lacks was given the default playbook.
C6_Witness ==
    /\ call.fn = "assign_playbook" /\ call.done
    /\ call.arg = <<"LOW", "BEHAVIORAL">>
    /\ call.ret = <<"PB_LOW_ACTIVE">>

\* C7: end to end, a member with has_open_receivable = 1 and
\* days_since_last_payment > 30 gets is_defaulter = 1.0, and if its tier is
\* HIGH its churn type is DEFAULT and its playbook PB_HIGH_FINANCIAL, whatever
\* its check-in recency.
C7_DefaulterEndToEnd ==
    ( /\ call.fn = "score" /\ call.done
      /\ call.arg[1].has_open_receivable = 1
      /\ call.arg[1].days_since_last_payment > 30 )
    => /\ call.ret[1].is_defaulter = 1
       /\ (call.ret[1].risk_tier = "HIGH") =>
            /\ call.ret[1].churn_type = "DEFAULT"
            /\ call.ret[1].playbook_id = "PB_HIGH_FINANCIAL"

\* C7 witness: the member of the scenario (45 days since the last payment, an
\* open receivable, HIGH tier), who never checked in, was scored.
C7_Witness ==
    /\ call.fn = "score" /\ call.done
    /\ call.arg[1].has_open_receivable = 1
    /\ call.arg[1].days_since_last_payment = 45
    /\ call.arg[1].days_since_last_checkin = NaN
    /\ call.ret[1].risk_tier = "HIGH"
    /\ call.ret[1].playbook_id = "PB_HIGH_FINANCIAL"

\* C8: for window_months >= 1 the validation windows of the folds are pairwise
\* disjoint, and no row is in the validation subset of two folds.
C8_ValidationWindowsDisjoint ==
    (pc \in {"loop", "done"} /\ loop.window_months >= 1) =>
        \A i, j \in 1..Len(folds) :
            i < j => /\ folds[i].val_end <= folds[j].val_start
                     /\ folds[i].val \cap folds[j].val = {}

\* C8 witness: a call with a window of two months or more returned two folds.
C8_Witness ==
    /\ pc = "done"
    /\ loop.window_months >= 2
    /\ Len(folds) >= 2

\* C9: of two consecutive folds the later one's train window is a strict
\* superset by date of the earlier one's, both starting at the same
\* train_start, and within a fold every train row is dated strictly before
\* every validation row.
C9_TrainWindowExpands ==
    (pc \in {"loop", "done"}) =>
        /\ \A k \in 1..(Len(folds) - 1) :
            /\ folds[k + 1].train_start = folds[k].train_start
            /\ folds[k].val_start < folds[k + 1].val_start
            /\ folds[k].train_start < folds[k + 1].val_start
            /\ folds[k].train \subseteq folds[k + 1].train
            /\ folds[k].train # folds[k + 1].train
        /\ \A k \in 1..Len(folds) :
            \A r \in folds[k].train, v \in folds[k].val : r < v

\* C9 witness: a call returned two folds.
C9_Witness ==
    /\ pc = "done"
    /\ Len(folds) >= 2
    /\ folds[1].train # {}

\* C10: with the default date configuration no row of the holdout test set
\* [test_start, test_end) is in the train or validation subset of any fold,
\* whatever the validation window width.
C10_HoldoutNeverInFolds ==
    ( /\ pc \in {"loop", "done"}
      /\ args.train_start = NoDate
      /\ args.val_start_month = NoDate
      /\ args.val_end_month = NoDate )
    => \A k \in 1..Len(folds) :
          /\ folds[k].train \cap generate_holdout_test(args.df).test = {}
          /\ folds[k].val \cap generate_holdout_test(args.df).test = {}

\* True of a call whose last validation start precedes its first one.
ValEndBeforeValStart ==
    /\ args # <<>>
    /\ FoldsLocals(args).last_val < FoldsLocals(args).current_val

\* C11: a call of generate_walk_forward_folds whose last validation start is
\* before its first validation start terminates and returns zero folds: it
\* reaches the return statement, and the list it returns is empty.
C11_InvertedRangeReturnsNoFolds ==
    [](ValEndBeforeValStart => <>(pc = "done" /\ folds = <<>>))

\* C11 witness: such a call has returned, on a table that has rows before and
\* after the first validation start.
C11_Witness ==
    /\ ValEndBeforeValStart
    /\ pc = "done"
    /\ folds = <<>>
    /\ \E r \in args.df : r < FoldsLocals(args).current_val
    /\ \E r \in args.df : r >= FoldsLocals(args).current_val

\* C12: load_training_data either raises the leakage error or returns a table
\* in which every row's reference_date strictly precedes the data cutoff.
C12_LoadedRowsPrecedeCutoff ==
    (call.fn = "load_training_data" /\ call.done) =>
        \/ call.ret.err = "ValueError"
        \/ /\ call.ret.err = "none"
           /\ \A i \in 1..Len(call.ret.val) :
                  call.ret.val[i].reference_date < Timestamp(DATA_CUTOFF_DATE)

\* C18: for every loaded row, is_defaulter is 1.0 if and only if
\* has_open_receivable is true and days_since_last_payment is strictly greater
\* than 30 days, and 0.0 otherwise: exactly 30 days, a missing payment age and
\* a missing receivable flag (a missing value or a missing column) give 0.0.
C18_IsDefaulterIff ==
    (call.fn = "load_training_data" /\ call.done /\ call.ret.err = "none") =>
        \A i \in 1..Len(call.ret.val) :
            LET row == call.ret.val[i]
                open == row.has_open_receivable = 1
                late == /\ row.days_since_last_payment \notin {NaN, Absent}
                        /\ row.days_since_last_payment > 30
            IN /\ row.is_defaulter \in {0, 1}
               /\ row.is_defaulter = 1 <=> (open /\ late)

\* C18 witness: a load returned a defaulter (31 days) next to a member with an
\* open receivable whose last payment is exactly 30 days old.
C18_Witness ==
    /\ call.fn = "load_training_data" /\ call.done /\ call.ret.err = "none"
    /\ \E i, j \in 1..Len(call.ret.val) :
          /\ call.ret.val[i].has_open_receivable = 1
          /\ call.ret.val[i].days_since_last_payment = 31
          /\ call.ret.val[i].is_defaulter = 1
          /\ call.ret.val[j].has_open_receivable = 1
          /\ call.ret.val[j].days_since_last_payment = 30
          /\ call.ret.val[j].is_defaulter = 0

\* The fraction of the scored members whose value of feature f is missing in
\* the feature matrix exceeds the feature's threshold: 45% for the check-in
\* group, 5% for every other feature.
ExceedsNullThreshold(f) ==
    100 * MissingInX(run.feats, f, run.n) >
        (IF f \in checkin_features THEN 45 ELSE 5) * run.n

\* C13: if the missing fraction of any feature exceeds its threshold, the run
\* halts with an error before a probability is predicted and before anything
\* is written: no run with such a feature gets past the quality gate.
C13_NullRateCircuitBreaker ==
    (run.n > 0 /\ \E f \in ScoredFeatures : ExceedsNullThreshold(f)) =>
        /\ ~run.predicted
        /\ run.pc \notin {"predict", "classify", "explain", "write", "insert",
                           "history", "summary"}
        /\ run.res # "summary"

\* C14: a scoring run that aborted, at whatever step, leaves the live
\* prediction table of its score date with exactly the rows it held before
\* the run or with exactly the complete new batch.
C14_NoPartialWrites ==
    run.pc = "raised" =>
        \/ DayRows(db.predictions, run.date) = DayRows(obs.before, run.date)
        \/ DayRows(db.predictions, run.date) = Records(run, 1..run.n)

\* C14 witness: the insert of a run failed after some but not all records,
\* on a score date that already had rows.
C14_Witness ==
    /\ run.pc = "raised"
    /\ run.at = "insert"
    /\ run.partial > 0
    /\ DayRows(obs.before, run.date) # {}
    /\ DayRows(db.predictions, run.date) = DayRows(obs.before, run.date)

\* The rows the most recent completed run of score date d wrote.
LatestOf(d) == IF d \in DOMAIN obs.latest THEN obs.latest[d] ELSE {}

\* C15: after any sequence of successful scoring runs the live prediction
\* table holds, for each score date, exactly the rows written by the most
\* recent run of that date, one row per scored member; rows of other score
\* dates are as they were before the run.
C15_SameDayOverwrite ==
    (obs.allok /\ RunFinished) =>
        /\ \A d \in ScoreDates : DayRows(db.predictions, d) = LatestOf(d)
        /\ db.predictions = UNION {LatestOf(d) : d \in ScoreDates}
        /\ \A r1, r2 \in db.predictions :
              (r1.member_id = r2.member_id /\ r1.score_date = r2.score_date)
                  => r1 = r2
        /\ \A d \in ScoreDates \ {run.date} :
              DayRows(db.predictions, d) = DayRows(obs.before, d)

\* C15 witness: a second run of the same score date has replaced the rows of
\* the first, which had scored more members.
C15_Witness ==
    /\ obs.allok /\ run.pc = "returned" /\ run.res = "summary"
    /\ run.id = 2
    /\ Cardinality(DayRows(obs.before, run.date)) > run.n
    /\ DayRows(db.predictions, run.date) = Records(run, 1..run.n)

\* C16: in fit the meta-learner is trained on the specialists' predictions
\* for the validation partition, with the validation labels, and not on their
\* predictions for the training partition.
C16_MetaLearnerTrainedOnValidation ==
    (call.fn = "fit" /\ call.done) =>
        /\ call.ret.meta_learner.y = call.arg.X_val
        /\ call.ret.meta_learner.X.passthrough = call.arg.X_val
        /\ \A i \in 1..NumSpecialists :
              call.ret.meta_learner.X.l0[i].rows = call.arg.X_val

\* C17: predict_risk_tier called on an ensemble on which neither fit nor load
\* has completed is reported as an error: it returns no tier labels.
C17_RiskTierOnUnfitRaises ==
    (out.op = "predict_risk_tier" /\ ~completed /\ ~ensemble.is_fitted) =>
        out.res.err # "none"

\* Feature i comes before feature j in the claimed order: larger absolute
\* attribution first, and among equal ones the earlier feature first.
RanksBefore(sv, i, j) ==
    \/ Abs(sv[i]) > Abs(sv[j])
    \/ (Abs(sv[i]) = Abs(sv[j]) /\ i < j)

\* C19: _explain_single returns the 3 features with the largest absolute
\* attribution in descending order of absolute attribution, and among
\* features of equal absolute attribution the one that comes first in the
\* feature iteration order is selected and listed first.
C19_Top3StableOrder ==
    (call.fn = "explain_single" /\ call.done /\ call.ret.err = "none") =>
        \A k \in 1..3 :
            Cardinality({j \in 1..NumShapFeatures :
                RanksBefore(call.arg.shap_values, j, call.ret.val[k].index)}) = k - 1

\* C20: _render_template never raises; on a template lookup miss or a
\* rendering error it returns the generic fallback sentence; a value of None
\* gives the template's leading sentence and everything else the rendered
\* template.
C20_RenderNeverRaises ==
    (call.fn = "render_template" /\ call.done) =>
        /\ call.ret.err = "none"
        /\ call.ret.val.kind \in {"fallback", "prefix", "rendered"}
        /\ call.arg.feature \notin DOMAIN SHAP_TEMPLATES =>
               call.ret.val = Fallback(call.arg.feature, call.arg.shap_value)
        /\ call.ret.val.kind = "fallback" =>
               call.ret.val.direction =
                   (IF call.arg.shap_value > 0 THEN "aumenta" ELSE "diminui")

C22_OverallStatus ==
    (call.fn = "run_full_check" /\ call.done) =>
        LET alert == \E f \in DOMAIN call.arg.psis : call.arg.psis[f] > 20000
            below == \E t \in DOMAIN call.arg.tiers \cap {"HIGH", "MEDIUM"} :
                         2 * (call.arg.tiers[t].tp + call.arg.tiers[t].recovered)
                             < call.arg.tiers[t].total
        IN /\ call.ret.val.overall_status \in {"RETRAIN_RECOMMENDED", "HEALTHY"}
           /\ call.ret.val.overall_status = "RETRAIN_RECOMMENDED" <=> (alert \/ below)

\* C23: compute_psi(X, X) is 0 for every X with at least 10 values that are
\* not NaN.
C23_PsiOfIdenticalIsZero ==
    (/\ call.fn = "compute_psi" /\ call.done
     /\ call.arg.expected = call.arg.actual
     /\ Len(DropNaN(call.arg.expected)) >= 10) =>
        call.ret = Returned(0)

\* compute_psi(X, X) has returned 0 for an X that fills more than one bin.
C23_Witness ==
    /\ call.fn = "compute_psi" /\ call.done
    /\ call.arg.expected = call.arg.actual
    /\ Len(DropNaN(call.arg.expected)) >= 10
    /\ Len(Unique(Percentiles(DropNaN(call.arg.expected), DEFAULT_N_BINS))) > 2
    /\ call.ret = Returned(0)

\* C24: the prediction history only grows: no step of a scoring run removes
\* or changes a history row, and the history step of a run that goes through
\* adds one row for each scored member, also when the day was scored before.
C24_HistoryAppendOnly ==
    [][/\ db.history \subseteq db.history'
       /\ (run.pc = "history" /\ run'.pc = "summary") =>
              /\ Cardinality(db.history') = Cardinality(db.history) + run.n
              /\ \A m \in 1..run.n :
                     \E r \in db.history' \ db.history :
                         r.member_id = m /\ r.score_date = run.date]_vars

\* A second run of the same day has returned, and the history holds the rows
\* of both runs for every member.
C24_Witness ==
    /\ run.pc = "returned" /\ run.res = "summary" /\ run.id = 2 /\ run.n > 0
    /\ \A m \in 1..run.n :
           /\ [member_id |-> m, score_date |-> run.date, scored_at |-> 1] \in db.history
           /\ [member_id |-> m, score_date |-> run.date, scored_at |-> 2] \in db.history

\* C25: an iteration whose train subset or validation subset is empty appends
\* no fold; an iteration that appends a fold gives it exactly the rows of its
\* own validation window; either way the position advances by window_months.
C25_SkippedFoldNotMerged ==
    [][(pc = "loop" /\ loop' # loop) =>
          LET lo == loop.current_val
              hi == AddMonths(loop.current_val, loop.window_months)
              train == {r \in args.df : r >= loop.train_start_dt /\ r < lo}
              val == {r \in args.df : r >= lo /\ r < hi}
          IN /\ loop'.current_val = hi
             /\ (train = {} \/ val = {}) => folds' = folds
             /\ (train # {} /\ val # {}) =>
                    /\ Len(folds') = Len(folds) + 1
                    /\ SubSeq(folds', 1, Len(folds)) = folds
                    /\ folds'[Len(folds')].val = val
                    /\ folds'[Len(folds')].val_start = lo]_vars

\* The call has returned a fold that follows a skipped window which had
\* validation rows, and the fold's validation subset has none of them.
C25_Witness ==
    /\ pc = "done"
    /\ \E i \in 1..Len(folds) :
           LET prev_end == IF i = 1 THEN FoldsLocals(args).current_val
                           ELSE folds[i - 1].val_end
           IN /\ prev_end < folds[i].val_start
              /\ \E r \in args.df :
                     r >= prev_end /\ r < folds[i].val_start /\ r \notin folds[i].val

\* C28: generate_walk_forward_folds returns for every input, whatever the
\* sign of window_months: every iteration moves the position forward, towards
\* the last validation start, and the call eventually returns.
C28_AlwaysTerminates ==
    /\ [][(pc = "loop" /\ loop' # loop) => loop'.current_val > loop.current_val]_vars
    /\ <>(pc = "done")

\* C26: a feature attributed by two specialists gets, in the merged
\* attributions of a row, the one of its two attributions that has the larger
\* magnitude, sign included.
C26_MergeKeepsLargerMagnitude ==
    (call.fn = "explain_batch" /\ call.done) =>
        \A i, j \in 1..2 :
            call.arg[1].features[i] = call.arg[2].features[j] =>
                LET a == call.arg[1].sv[i]
                    b == call.arg[2].sv[j]
                IN call.ret.val[call.arg[1].features[i]]
                       \in {x \in {a, b} : Abs(x) = Max(Abs(a), Abs(b))}

\* C27: whatever sequence of construct, fit, save and load calls was made, an
\* ensemble with is_fitted = TRUE has its four specialist models, its
\* meta-learner and its calibrator, and a predict_proba call on it does not
\* fail for lack of a model.
C27_FittedImpliesAllPresent ==
    ensemble.is_fitted =>
        /\ AllPresent(ensemble)
        /\ out.op = "predict_proba" => out.res.err # "AttributeError"

\* C29: in train_final_model no component of the ensemble is fitted with a
\* row of the holdout test window [TEST_START_DATE, TEST_END_DATE): not a
\* specialist (training set or early-stopping set), not the meta-learner, not
\* the calibrator.
C29_HoldoutOnlyForMetrics ==
    (call.fn = "train_final_model" /\ call.done /\ call.ret.err = "none") =>
        LET test == {r \in call.arg : /\ r >= Timestamp(TEST_START_DATE)
                                      /\ r < Timestamp(TEST_END_DATE)}
            fitted == call.ret.val
        IN /\ \A i \in 1..NumSpecialists :
                 /\ fitted.specialists[i].X \cap test = {}
                 /\ fitted.specialists[i].eval_set \cap test = {}
           /\ fitted.meta_learner.X.passthrough \cap test = {}
           /\ fitted.meta_learner.y \cap test = {}
           /\ fitted.calibrator.X.passthrough \cap test = {}
           /\ fitted.calibrator.y \cap test = {}

\* C30: a scored member in the HIGH or MEDIUM tier whose churn type is
\* DEFAULT, FULL, BEHAVIORAL or FINANCIAL does not get the playbook
\* PB_LOW_ACTIVE; that playbook goes only to members of churn type NONE.
C30_AtRiskNeverLowPlaybook ==
    (call.fn = "score" /\ call.done) =>
        /\ ( /\ call.ret[1].risk_tier \in {"HIGH", "MEDIUM"}
             /\ call.ret[1].churn_type \in {"DEFAULT", "FULL", "BEHAVIORAL", "FINANCIAL"} )
           => call.ret[1].playbook_id # "PB_LOW_ACTIVE"
        /\ call.ret[1].playbook_id = "PB_LOW_ACTIVE" => call.ret[1].churn_type = "NONE"

====
